---- MODULE Spec2Model ----
(***************************************************************************)
(* A model of nltk/twitter/twitterclient.py: the streaming engine          *)
(* (Streamer), the search engine (Query), the facade's choice of handler   *)
(* (Twitter.tweets) and the two handlers TweetViewer and TweetWriter.      *)
(*                                                                         *)
(* Python's None is the empty tuple <<>> and a present value v is <<v>>.   *)
(* A file name is the second-granularity timestamp in it (a number); the   *)
(* disk maps each name that was ever opened to the number of lines the     *)
(* file holds.                                                             *)
(***************************************************************************)
EXTENDS Integers, Sequences, FiniteSets, TLC

\* ---------------------------------------------------------------- bounds
\* largest limit a session is started with
MaxLimit == 2
\* inbound stream messages per streaming session
MaxMsgs == 4
\* ChunkedEncodingErrors the transport raises per streaming session
MaxChunkErr == 2
\* records the search endpoint holds
MaxRecords == 3
\* most records the endpoint puts in one response (it may return fewer than
\* the count asked for)
MaxServerPage == 2
\* search_tweets() calls per _search_tweets session (repeat mode never ends)
MaxRounds == 3
\* rate-limit errors, and other transport errors, per search session
MaxRateErr == 1
MaxOtherErr == 2
\* largest retries_after_twython_exception a direct caller passes
MaxRetries == 1
MaxCalls == 2

\* ------------------------------------------------------- program constants
\* count=min(100, limit): the largest page search_tweets() asks for
PageMax == 100
\* time.sleep(15*60)
RateLimitSleep == 15 * 60

\* ------------------------------------------------------------ vocabulary
None == <<>>
Some(v) == <<v>>

\* created_at of a record, relative to the one boundary the model uses:
\* BeforeLimit < AtLimit < AfterLimit
Dates == {"before", "at", "after"}
DateRank(d) == CASE d = "before" -> 0 [] d = "at" -> 1 [] OTHER -> 2
TheDateLimit == "at"

\* the oldest record of the endpoint has id IdBase + 1 (101 in the scenario)
IdBase == 101 - 1

Min2(a, b) == IF a < b THEN a ELSE b
Max2(a, b) == IF a < b THEN b ELSE a
Last(s) == s[Len(s)]
Reverse(s) == [i \in 1..Len(s) |-> s[Len(s) + 1 - i]]

VARIABLES
    mode,   \* "stream": Streamer.sample()/filter(); "search": Query._search_tweets();
            \* "direct": a caller iterating Query.search_tweets() itself
    api,    \* the search endpoint: records held, server page size, page order
    h,      \* the handler object (TweetWriter / TweetViewer / none registered)
    disk,   \* file name -> number of lines in the file
    st,     \* the Streamer: control position, do_continue flag, connection
    q       \* the Query: control position and the frame of search_tweets()

vars == <<mode, api, h, disk, st, q>>

\* ------------------------------------------------- handler protocol (api)
\* TweetHandlerI.__init__ / BasicTweetHandler.__init__: counter, limit,
\* do_stop, date_limit, startingup.  The n_* fields count calls and are not
\* read by the program; dc_ret is the value the last do_continue() returned.
TweetHandlerI_init(limit, date_limit) ==
    [ limit |-> limit, counter |-> 0, do_stop |-> FALSE,
      date_limit |-> date_limit, startingup |-> TRUE,
      n_handle |-> 0, n_on_finish |-> 0, n_restart |-> 0,
      dc_tick |-> FALSE, dc_ret |-> None,
      crossed |-> FALSE, n_late |-> 0, seen |-> "none" ]

\* TweetHandlerI.do_continue: the protocol default, counter < limit
TweetHandlerI_do_continue(hh) == hh.counter < hh.limit

\* ------------------------------------------------------------ TweetViewer
TweetViewer_init(limit, date_limit) ==
    TweetHandlerI_init(limit, date_limit) @@
    [ kind |-> "TweetViewer", stream |-> TRUE, repeat |-> FALSE,
      max_id |-> None, output |-> "None", fname |-> 0 ]

\* TweetViewer.handle: print the text, count the record
TweetViewer_handle(hh) ==
    [hh EXCEPT !.counter = @ + 1, !.n_handle = @ + 1]

\* TweetViewer.on_finish: print the count
TweetViewer_on_finish(hh) == [hh EXCEPT !.n_on_finish = @ + 1]

\* ------------------------------------------------------------ TweetWriter
\* TweetWriter.__init__: the first file name is computed here
TweetWriter_init(limit, date_limit, stream, repeat) ==
    TweetHandlerI_init(limit, date_limit) @@
    [ kind |-> "TweetWriter", stream |-> stream, repeat |-> repeat,
      max_id |-> None, output |-> "None", fname |-> 0 ]

\* open(self.fname, 'w'): creates the file or truncates it to no lines
OpenForWriting(dd, name) == [n \in DOMAIN dd \cup {name} |->
                                IF n = name THEN 0 ELSE dd[n]]

\* self.output.write(json_data + "\n"): one more line in the open file
WriteLine(dd, name) == [dd EXCEPT ![name] = @ + 1]

\* mutant of the date test: a record dated equal to the boundary stops too
DateStops_not_strict(hh, date) ==
    /\ hh.date_limit # None
    /\ \/ DateRank(date) >= DateRank(hh.date_limit[1]) /\ hh.stream = TRUE
       \/ DateRank(date) <= DateRank(hh.date_limit[1]) /\ hh.stream = FALSE

\* the date test of handle(): which side of the boundary stops the session
DateStops(hh, date) ==
    /\ hh.date_limit # None
    /\ \/ DateRank(date) > DateRank(hh.date_limit[1]) /\ hh.stream = TRUE
       \/ DateRank(date) < DateRank(hh.date_limit[1]) /\ hh.stream = FALSE

\* mutant of TweetWriter.handle: `self.startingup = False` is forgotten, so
\* every call opens the file again
TweetWriter_handle_reopens(hh, dd, date) ==
    LET d1 == IF hh.startingup THEN OpenForWriting(dd, hh.fname) ELSE dd
        h1 == IF hh.startingup THEN [hh EXCEPT !.output = "open"] ELSE hh
        d2 == WriteLine(d1, h1.fname)
        h2 == [h1 EXCEPT !.n_handle = @ + 1]
    IN  IF DateStops(h2, date)
        THEN [h |-> [h2 EXCEPT !.do_stop = TRUE], disk |-> d2]
        ELSE [h |-> h2, disk |-> d2]

\* TweetWriter.handle: returns the handler and the disk after the call
TweetWriter_handle(hh, dd, date) ==
    LET d1 == IF hh.startingup THEN OpenForWriting(dd, hh.fname) ELSE dd
        h1 == IF hh.startingup THEN [hh EXCEPT !.output = "open"] ELSE hh
        d2 == WriteLine(d1, h1.fname)
        h2 == [h1 EXCEPT !.n_handle = @ + 1]
    IN  IF DateStops(h2, date)
        THEN [h |-> [h2 EXCEPT !.do_stop = TRUE], disk |-> d2]
        ELSE [h |-> [h2 EXCEPT !.startingup = FALSE], disk |-> d2]

\* TweetWriter.on_finish: print the count, close the output if there is one
TweetWriter_on_finish(hh) ==
    [hh EXCEPT !.n_on_finish = @ + 1,
               !.output = IF hh.output # "None" THEN "closed" ELSE @]

\* mutant of TweetWriter._restart_file: `self.counter = 0` is forgotten
TweetWriter_restart_file_keeps_counter(hh, t) ==
    [TweetWriter_on_finish(hh) EXCEPT !.fname = t, !.startingup = TRUE,
                                      !.n_restart = @ + 1]

\* TweetWriter._restart_file; t is what timestamped_file() returns
TweetWriter_restart_file(hh, t) ==
    [TweetWriter_on_finish(hh) EXCEPT !.fname = t, !.startingup = TRUE,
                                      !.counter = 0, !.n_restart = @ + 1]

\* mutant of TweetWriter.do_continue: the rotation test comes before the
\* do_stop test
TweetWriter_do_continue_rotates_first(hh, t) ==
    IF hh.repeat = FALSE
    THEN [ret |-> TweetHandlerI_do_continue(hh), h |-> hh]
    ELSE LET h1 == IF hh.counter = hh.limit
                   THEN TweetWriter_restart_file(hh, t) ELSE hh
         IN  IF h1.do_stop
             THEN [ret |-> FALSE, h |-> h1]
             ELSE [ret |-> TRUE, h |-> h1]

\* TweetWriter.do_continue: the value returned and the handler afterwards
TweetWriter_do_continue(hh, t) ==
    IF hh.repeat = FALSE
    THEN [ret |-> TweetHandlerI_do_continue(hh), h |-> hh]
    ELSE IF hh.do_stop
    THEN [ret |-> FALSE, h |-> hh]
    ELSE IF hh.counter = hh.limit
    THEN [ret |-> TRUE, h |-> TweetWriter_restart_file(hh, t)]
    ELSE [ret |-> TRUE, h |-> hh]

\* ------------------------------------------- dispatch on the handler kind
\* handler.handle(data)
handle(hh, dd, date) ==
    LET r == IF hh.kind = "TweetWriter" THEN TweetWriter_handle(hh, dd, date)
             ELSE [h |-> TweetViewer_handle(hh), disk |-> dd]
    IN  [h |-> [r.h EXCEPT !.n_late = IF hh.crossed THEN @ + 1 ELSE @,
                           !.crossed = @ \/ DateStops(hh, date),
                           !.seen = date],
         disk |-> r.disk]

\* handler.do_continue(), with the returned value recorded in dc_ret
do_continue(hh, t) ==
    LET r == IF hh.kind = "TweetWriter" THEN TweetWriter_do_continue(hh, t)
             ELSE [ret |-> TweetHandlerI_do_continue(hh), h |-> hh]
    IN  [ret |-> r.ret, h |-> [r.h EXCEPT !.dc_ret = Some(r.ret),
                                          !.dc_tick = ~@]]

\* handler.on_finish()
on_finish(hh) ==
    IF hh.kind = "TweetWriter" THEN TweetWriter_on_finish(hh)
    ELSE TweetViewer_on_finish(hh)

\* timestamped_file(): datetime.now() to the second; the clock never runs
\* backwards, so the name is the last one or a later one
Timestamps(hh) == {hh.fname, hh.fname + 1}

\* ---------------------------------------------------------------- Streamer
\* Streamer.__init__ and register(handler)
Streamer_init ==
    [pc |-> "loop", do_continue |-> TRUE, connected |-> FALSE,
     err |-> "none", msgs |-> 0, text_msgs |-> 0, chunk_errs |-> 0,
     no_track_follow |-> FALSE, calls |-> 1, conns |-> 0]

\* mutant of on_success: the test `'text' in data` is missing
Streamer_on_success_ignores_text(ss, hh, dd, data, t) ==
    IF ss.do_continue
    THEN IF hh.kind # "None"
         THEN LET h1 == [hh EXCEPT !.counter = @ + 1]
                  r  == handle(h1, dd, data.date)
                  c  == do_continue(r.h, t)
              IN  [st |-> [ss EXCEPT !.do_continue = c.ret],
                   h |-> c.h, disk |-> r.disk]
         ELSE [st |-> [ss EXCEPT !.pc = "raised", !.err = "ValueError"],
               h |-> hh, disk |-> dd]
    ELSE [st |-> [ss EXCEPT !.connected = FALSE],
          h |-> on_finish(hh), disk |-> dd]

\* Streamer.on_success(data); data = [text, date]
Streamer_on_success(ss, hh, dd, data, t) ==
    IF ss.do_continue
    THEN IF hh.kind # "None"
         THEN IF data.text
              THEN LET h1 == [hh EXCEPT !.counter = @ + 1]
                       r  == handle(h1, dd, data.date)
                       c  == do_continue(r.h, t)
                   IN  [st |-> [ss EXCEPT !.do_continue = c.ret],
                        h |-> c.h, disk |-> r.disk]
              ELSE [st |-> ss, h |-> hh, disk |-> dd]
         ELSE [st |-> [ss EXCEPT !.pc = "raised", !.err = "ValueError"],
               h |-> hh, disk |-> dd]
    ELSE [st |-> [ss EXCEPT !.connected = FALSE],
          h |-> on_finish(hh), disk |-> dd]

\* the messages the stream can deliver
Messages(hh) ==
    [text : BOOLEAN,
     date : IF hh.date_limit = None THEN {"at"} ELSE Dates]

\* sample() / filter(): the test of `while self.do_continue`, and the call
\* of self.statuses.sample() that opens the connection
StreamLoop ==
    /\ mode = "stream"
    /\ st.pc = "loop"
    /\ st' = IF st.do_continue
             THEN IF st.no_track_follow
                  THEN [st EXCEPT !.pc = "raised", !.err = "ValueError"]
                  ELSE [st EXCEPT !.pc = "streaming", !.connected = TRUE,
                                  !.conns = @ + 1]
             ELSE [st EXCEPT !.pc = "returned"]
    /\ UNCHANGED <<mode, api, h, disk, q>>

\* the client calls sample() or filter() again on the same Streamer, after
\* the earlier call has returned or raised
StreamCall ==
    /\ mode = "stream"
    /\ st.pc \in {"returned", "raised"}
    /\ st.calls < MaxCalls
    /\ \E e \in BOOLEAN :
         st' = [st EXCEPT !.pc = "loop", !.err = "none", !.calls = @ + 1,
                          !.no_track_follow = e, !.conns = 0]
    /\ UNCHANGED <<mode, api, h, disk, q>>

\* the transport delivers one message to on_success
StreamMessage ==
    /\ st.pc = "streaming" /\ st.connected
    /\ st.msgs < MaxMsgs
    /\ \E data \in Messages(h), t \in Timestamps(h) :
         LET s1 == [st EXCEPT !.msgs = @ + 1,
                              !.text_msgs = IF data.text THEN @ + 1 ELSE @]
             r  == Streamer_on_success(s1, h, disk, data, t)
         IN  st' = r.st /\ h' = r.h /\ disk' = r.disk
    /\ UNCHANGED <<mode, api, q>>

\* the transport sees the connection closed by disconnect() and returns
StreamDisconnected ==
    /\ st.pc = "streaming" /\ ~st.connected
    /\ st' = [st EXCEPT !.pc = "loop"]
    /\ UNCHANGED <<mode, api, h, disk, q>>

\* mutant of the except clause: the ChunkedEncodingError is not caught
StreamChunkedError_propagates ==
    /\ st.pc = "streaming"
    /\ st.chunk_errs < MaxChunkErr
    /\ st' = [st EXCEPT !.pc = "raised", !.err = "ChunkedEncodingError",
                        !.chunk_errs = @ + 1]
    /\ UNCHANGED <<mode, api, h, disk, q>>

\* the transport raises ChunkedEncodingError; the loop catches it
StreamChunkedError ==
    /\ st.pc = "streaming"
    /\ st.chunk_errs < MaxChunkErr
    /\ st' = [st EXCEPT !.pc = "loop", !.chunk_errs = @ + 1]
    /\ UNCHANGED <<mode, api, h, disk, q>>

\* ---------------------------------------------------------- search endpoint
\* self.search(q, count, lang, max_id, result_type='recent') when it succeeds:
\* the endpoint holds the ids IdBase+1 .. IdBase+api.nrec, returns the newest
\* ones not above max_id, at most count and at most api.page of them, newest
\* first unless api.descending is off (then oldest first)
EndpointPage(count, max_id) ==
    LET newest == IdBase + api.nrec
        top    == IF max_id = None THEN newest ELSE Min2(max_id[1], newest)
        avail  == Max2(top - IdBase, 0)
        n      == Min2(Min2(count, api.page), avail)
        page   == [i \in 1..n |-> top + 1 - i]
    IN  IF api.descending THEN page ELSE Reverse(page)

\* ------------------------------------------------------------------- Query
\* BasicTweetHandler(limit=limit), installed by search_tweets() when no
\* handler is registered
BasicTweetHandler_init(limit) ==
    TweetHandlerI_init(limit, None) @@
    [ kind |-> "BasicTweetHandler", stream |-> FALSE, repeat |-> FALSE,
      max_id |-> None, output |-> "None", fname |-> 0 ]

\* no handler registered: self.handler = None
NoHandler ==
    TweetHandlerI_init(1, None) @@
    [ kind |-> "None", stream |-> FALSE, repeat |-> FALSE,
      max_id |-> None, output |-> "None", fname |-> 0 ]

\* Query.__init__ and the arguments of the session's search_tweets() calls.
\* The locals of the generator frame: count_from_query, max_id, retries,
\* results (None while unbound), idx (position of the for loop).  slept,
\* yielded, requests and the counters record what the call did.
Query_init(pc, limit, max_id, retries_allowed) ==
    [ pc |-> pc, err |-> "none", limit |-> limit, arg_max_id |-> max_id,
      retries_allowed |-> retries_allowed,
      count_from_query |-> 0, max_id |-> None, retries |-> 0,
      results |-> None, idx |-> 0, cur |-> None, resume |-> "none",
      slept |-> 0, yielded |-> <<>>, requests |-> <<>>, stale |-> 0,
      rounds |-> 0, fetched |-> 0, n_yield |-> 0,
      rate_errs |-> 0, other_errs |-> 0 ]

\* `if not max_id`: None and 0 are both false
Falsy(m) == IF m = None THEN TRUE ELSE m[1] = 0

\* the generator frame of a new search_tweets() call
NewCall(qq, max_id) ==
    [qq EXCEPT !.pc = "gen_start", !.arg_max_id = max_id,
               !.count_from_query = 0, !.max_id = None, !.retries = 0,
               !.results = None, !.idx = 0, !.cur = None, !.resume = "none",
               !.slept = 0, !.yielded = <<>>, !.requests = <<>>, !.stale = 0,
               !.rounds = Min2(@ + 1, MaxRounds)]

\* the call that has just ended yielded no record. Rounds that fetch nothing
\* leave handler and cursor as they were, so they are not counted against
\* MaxRounds
DryRound(qq) == qq.rounds > 0 /\ qq.yielded = <<>>

\* `if not self.handler: self.handler = BasicTweetHandler(limit=limit)`
EnsureHandler(hh, limit) ==
    IF hh.kind = "None" THEN BasicTweetHandler_init(limit) ELSE hh

\* one more request in the call's log
Logged(qq, count, max_id, outcome) ==
    [qq EXCEPT !.requests = Append(@, [count |-> count, max_id |-> max_id,
                                       outcome |-> outcome])]

\* `yield result` for results[i]: the frame is suspended, the consumer has
\* the record
Yield(qq, i, resume) ==
    [qq EXCEPT !.idx = i, !.cur = Some(qq.results[1][i]), !.pc = "handle",
               !.resume = resume, !.yielded = Append(@, qq.results[1][i]),
               !.n_yield = @ + 1]

\* mutant of the cursor computation: the first record of the page instead of
\* the last
NextCursor_first(page) == page[1] - 1

\* the cursor after a page: results['statuses'][count - 1]['id'] - 1
NextCursor(page) == page[Len(page)] - 1

\* lines 230-238: the initial page has arrived
AfterInitialPage(qq, page) ==
    LET count == Len(page)
        q1 == [qq EXCEPT !.results = Some(page), !.fetched = @ + count]
    IN  IF count = 0
        THEN [q1 EXCEPT !.pc = "exhausted"]
        ELSE Yield([q1 EXCEPT !.count_from_query = count,
                              !.max_id = Some(NextCursor(page))],
                   1, "init_resume")

\* lines 262-275: the page in `results` is processed; the cursor is stored on
\* the handler
AfterPage(qq, hh) ==
    LET page  == qq.results[1]
        count == Len(page)
    IN  IF count = 0
        THEN [q |-> [qq EXCEPT !.pc = "exhausted"], h |-> hh]
        ELSE [q |-> Yield([qq EXCEPT !.count_from_query = @ + count,
                                     !.max_id = Some(NextCursor(page))],
                          1, "page_resume"),
              h |-> [hh EXCEPT !.max_id = Some(NextCursor(page))]]

\* lines 239-241 and 276-278: the frame is resumed after a yield; after is
\* where it goes when the for loop is over
Resumed(qq, hh, t, after) ==
    LET c == do_continue([hh EXCEPT !.counter = @ + 1], t)
    IN  [h |-> c.h,
         q |-> IF c.ret = FALSE
               THEN [qq EXCEPT !.pc = "exhausted", !.cur = None]
               ELSE IF qq.idx < Len(qq.results[1])
               THEN Yield(qq, qq.idx + 1, qq.resume)
               ELSE [qq EXCEPT !.pc = after, !.cur = None]]

\* mcount = min(100, limit - count_from_query)
PageCount(qq) == Min2(PageMax, qq.limit - qq.count_from_query)

\* _search_tweets, lines 191-197: the cursor is read from the handler and
\* search_tweets() is called
SearchCall ==
    /\ mode = "search" /\ q.pc = "top"
    /\ q.rounds < MaxRounds \/ DryRound(q)
    /\ q' = NewCall(q, IF h.kind = "TweetWriter" THEN h.max_id ELSE None)
    /\ UNCHANGED <<mode, api, h, disk, st>>

\* search_tweets, lines 221-238: no cursor, the initial request succeeds
InitialPage ==
    /\ q.pc = "gen_start" /\ Falsy(q.arg_max_id)
    /\ LET count == Min2(PageMax, q.limit)
           page  == EndpointPage(count, None)
       IN  q' = AfterInitialPage(Logged(q, count, None, "ok"), page)
    /\ h' = EnsureHandler(h, q.limit)
    /\ UNCHANGED <<mode, api, disk, st>>

\* the initial request raises; it is outside every try block
InitialError ==
    /\ q.pc = "gen_start" /\ Falsy(q.arg_max_id)
    /\ \E e \in {"TwythonRateLimitError", "TwythonError"} :
         /\ e = "TwythonRateLimitError" => q.rate_errs < MaxRateErr
         /\ e = "TwythonError" => q.other_errs < MaxOtherErr
         /\ q' = [Logged(q, Min2(PageMax, q.limit), None, e)
                    EXCEPT !.pc = "raised", !.err = e,
                           !.rate_errs = IF e = "TwythonRateLimitError"
                                         THEN @ + 1 ELSE @,
                           !.other_errs = IF e = "TwythonError"
                                          THEN @ + 1 ELSE @]
    /\ h' = EnsureHandler(h, q.limit)
    /\ UNCHANGED <<mode, api, disk, st>>

\* a cursor was supplied: straight to the pagination loop
SkipInitial ==
    /\ q.pc = "gen_start" /\ ~Falsy(q.arg_max_id)
    /\ q' = [q EXCEPT !.pc = "page_loop", !.max_id = q.arg_max_id]
    /\ h' = EnsureHandler(h, q.limit)
    /\ UNCHANGED <<mode, api, disk, st>>

\* the consumer of the generator has the yielded record: _search_tweets calls
\* handler.handle(tweet); a direct caller only takes it
Consume ==
    /\ q.pc = "handle"
    /\ \E date \in (IF h.date_limit = None THEN {"at"} ELSE Dates) :
         LET r == IF mode = "search" THEN handle(h, disk, date)
                  ELSE [h |-> h, disk |-> disk]
         IN  h' = r.h /\ disk' = r.disk
    /\ q' = [q EXCEPT !.pc = q.resume]
    /\ UNCHANGED <<mode, api, st>>

\* lines 239-241
InitialResume ==
    /\ q.pc = "init_resume"
    /\ \E t \in Timestamps(h) :
         LET r == Resumed(q, h, t, "page_loop")
         IN  q' = r.q /\ h' = r.h
    /\ UNCHANGED <<mode, api, disk, st>>

\* line 247: the pagination loop ends when enough records were fetched
PageLoopEnd ==
    /\ q.pc = "page_loop"
    /\ ~(q.count_from_query < q.limit)
    /\ q' = [q EXCEPT !.pc = "exhausted"]
    /\ UNCHANGED <<mode, api, h, disk, st>>

\* lines 248-251 and 262-275: the page request succeeds
PageOk ==
    /\ q.pc = "page_loop"
    /\ q.count_from_query < q.limit
    /\ LET page == EndpointPage(PageCount(q), q.max_id)
           q1   == [Logged(q, PageCount(q), q.max_id, "ok")
                      EXCEPT !.results = Some(page), !.fetched = @ + Len(page)]
           r    == AfterPage(q1, h)
       IN  q' = r.q /\ h' = r.h
    /\ UNCHANGED <<mode, api, disk, st>>

\* lines 252-255: TwythonRateLimitError: sleep, then the loop test again
PageRateLimit ==
    /\ q.pc = "page_loop"
    /\ q.count_from_query < q.limit
    /\ q.rate_errs < MaxRateErr
    /\ q' = [Logged(q, PageCount(q), q.max_id, "TwythonRateLimitError")
               EXCEPT !.slept = @ + RateLimitSleep, !.rate_errs = @ + 1]
    /\ UNCHANGED <<mode, api, h, disk, st>>

\* lines 256-275: another TwythonError: raised again when the retries are
\* used up; otherwise retries is counted and control falls out of the try
\* statement to line 262, which reads `results`: unbound (UnboundLocalError)
\* if no request of this call has succeeded, else the previous page
PageError ==
    /\ q.pc = "page_loop"
    /\ q.count_from_query < q.limit
    /\ q.other_errs < MaxOtherErr
    /\ LET q1 == [Logged(q, PageCount(q), q.max_id, "TwythonError")
                    EXCEPT !.other_errs = @ + 1]
       IN  IF q1.retries_allowed = q1.retries
           THEN q' = [q1 EXCEPT !.pc = "raised", !.err = "TwythonError"]
                /\ h' = h
           ELSE LET q2 == [q1 EXCEPT !.retries = @ + 1] IN
                IF q2.results = None
                THEN q' = [q2 EXCEPT !.pc = "raised",
                                     !.err = "UnboundLocalError"]
                     /\ h' = h
                ELSE LET r == AfterPage([q2 EXCEPT !.stale = @ + 1], h)
                     IN  q' = r.q /\ h' = r.h
    /\ UNCHANGED <<mode, api, disk, st>>

\* lines 276-278
PageResume ==
    /\ q.pc = "page_resume"
    /\ \E t \in Timestamps(h) :
         LET r == Resumed(q, h, t, "page_loop")
         IN  q' = r.q /\ h' = r.h
    /\ UNCHANGED <<mode, api, disk, st>>

\* _search_tweets, lines 200-202: the generator is exhausted.  TweetViewer
\* has no attribute `repeat`: reading it raises AttributeError
SearchRoundEnd ==
    /\ mode = "search" /\ q.pc = "exhausted"
    /\ \E t \in Timestamps(h) :
         LET c == do_continue(h, t) IN
         IF c.ret /\ c.h.kind # "TweetWriter"
         THEN q' = [q EXCEPT !.pc = "raised", !.err = "AttributeError"]
              /\ h' = c.h
         ELSE IF ~(c.ret /\ c.h.repeat)
         THEN q' = [q EXCEPT !.pc = "done"] /\ h' = on_finish(c.h)
         ELSE q' = [q EXCEPT !.pc = "top"] /\ h' = c.h
    /\ UNCHANGED <<mode, api, disk, st>>

\* ------------------------------------------------------------------- facade
\* Twitter.tweets(): the handler it builds for to_screen / stream / repeat
Handlers(stream) ==
    { [TweetViewer_init(l, d) EXCEPT !.stream = stream] :
        l \in 1..MaxLimit, d \in {None, Some(TheDateLimit)} }
    \cup
    { TweetWriter_init(l, d, stream, r) :
        l \in 1..MaxLimit, d \in {None, Some(TheDateLimit)}, r \in BOOLEAN }

Endpoints ==
    [nrec : 0..MaxRecords, page : 1..MaxServerPage, descending : BOOLEAN]

NoEndpoint == [nrec |-> 0, page |-> 1, descending |-> TRUE]

\* Twitter.tweets(stream=True): the handler is registered on the Streamer
InitStream ==
    /\ mode = "stream"
    /\ h \in Handlers(TRUE) \cup {NoHandler}
    /\ \E e \in BOOLEAN : st = [Streamer_init EXCEPT !.no_track_follow = e]
    /\ api = NoEndpoint
    /\ q = Query_init("idle", h.limit, None, 0)

\* Twitter.tweets(stream=False): the handler is registered on the Query and
\* _search_tweets(keywords, limit) is called with the handler's limit
InitSearch ==
    /\ mode = "search"
    /\ h \in Handlers(FALSE)
    /\ st = [Streamer_init EXCEPT !.pc = "idle"]
    /\ api \in Endpoints
    /\ q = Query_init("top", h.limit, None, 0)

\* a caller iterates search_tweets(keywords, limit, max_id, retries) with no
\* handler registered
InitDirect ==
    /\ mode = "direct"
    /\ h = NoHandler
    /\ st = [Streamer_init EXCEPT !.pc = "idle"]
    /\ api \in Endpoints
    /\ \E l \in 1..MaxLimit, r \in 0..MaxRetries,
          m \in {None} \cup {Some(IdBase + k) : k \in 0..MaxRecords} :
         q = [Query_init("gen_start", l, m, r) EXCEPT !.rounds = 1]

Init ==
    /\ disk = << >>
    /\ \/ InitStream
       \/ InitSearch
       \/ InitDirect

Next ==
    \/ StreamCall
    \/ StreamLoop
    \/ StreamMessage
    \/ StreamDisconnected
    \/ StreamChunkedError
    \/ SearchCall
    \/ InitialPage
    \/ InitialError
    \/ SkipInitial
    \/ Consume
    \/ InitialResume
    \/ PageLoopEnd
    \/ PageOk
    \/ PageRateLimit
    \/ PageError
    \/ PageResume
    \/ SearchRoundEnd

Spec == Init /\ [][Next]_vars

\* the interpreter keeps executing the program: a step that can be taken is
\* taken
LiveSpec == Spec /\ WF_vars(Next)

\* ===================================================================== claims
\* lines in the handler's current output file
Written == IF h.fname \in DOMAIN disk THEN disk[h.fname] ELSE 0

\* records the engine had to offer: text messages the stream delivered,
\* records the search endpoint returned
Offered == IF mode = "stream" THEN st.text_msgs ELSE q.fetched

\* a TweetWriter without repeat mode, driven by one of the two engines
WriterNoRepeat ==
    /\ h.kind = "TweetWriter" /\ h.repeat = FALSE
    /\ mode \in {"stream", "search"}

\* the engine is between two records (streaming) or has stopped (search)
AtRest == mode = "stream" \/ q.pc \in {"done", "raised"}

WriterRepeatNoDate ==
    /\ h.kind = "TweetWriter" /\ h.repeat = TRUE /\ h.date_limit = None
    /\ mode \in {"stream", "search"}

\* a record has been handled by _search_tweets and the generator has not yet
\* counted it
Uncounted ==
    IF mode = "search" /\ q.pc \in {"init_resume", "page_resume"} THEN 1 ELSE 0

\* C2: in repeat mode with no date boundary there has been one rotation per
\* limit records handled, counter is 0 after a rotation until the next
\* record, every completed file holds limit records, and do_continue() has
\* never returned false
C2_RotationEveryLimit ==
    WriterRepeatNoDate =>
        /\ h.n_handle = h.n_restart * h.limit + h.counter + Uncounted
        /\ h.counter < h.limit
        /\ (h.n_restart > 0 /\ h.startingup) => h.counter = 0
        /\ \A n \in DOMAIN disk :
              (n # h.fname \/ (h.startingup /\ h.n_restart > 0))
                  => disk[n] = h.limit
        /\ h.dc_ret # Some(FALSE)

\* C2 witness: two rotations of files of more than one record
C2_Witness ==
    /\ WriterRepeatNoDate
    /\ h.limit > 1 /\ h.n_restart = 2 /\ h.counter = 0 /\ h.startingup
    /\ h.n_handle = 2 * h.limit
\* C3 (as stated): once do_stop is true it stays true, and every do_continue()
\* call made while it is true returns false, in repeat mode and without it
C3_Original ==
    [][ /\ h.do_stop => h'.do_stop
        /\ (h'.do_stop /\ h'.dc_tick # h.dc_tick)
              => h'.dc_ret = Some(FALSE) ]_vars

\* the part of C3 that the code under src/ decides: do_stop is never cleared,
\* and in repeat mode every later do_continue() returns false and rotates
\* nothing
C3_StickyAndRepeatStops ==
    [][ /\ h.do_stop => h'.do_stop
        /\ (h'.do_stop /\ h'.repeat /\ h'.dc_tick # h.dc_tick)
              => (h'.dc_ret = Some(FALSE) /\ h'.n_restart = h.n_restart) ]_vars
\* a streaming session (sample() or filter()) with a registered handler
Streaming == mode = "stream" /\ h.kind # "None"

\* C4 (as stated): in a streaming session on_finish() is never invoked more
\* than once, and when the loop has exited the connection was disconnected
\* and on_finish() has been invoked exactly once
C4_Original ==
    Streaming =>
        /\ h.n_on_finish <= 1
        /\ st.pc = "returned" => (h.n_on_finish = 1 /\ ~st.connected)

\* what holds of the streaming loop: on_success() itself invokes on_finish()
\* at most once, together with disconnect(), and the loop exits only with the
\* continuation flag false
C4_EngineFinishesAtMostOnce ==
    Streaming =>
        /\ h.n_on_finish - h.n_restart \in {0, 1}
        /\ h.n_on_finish - h.n_restart = 1 => (~st.connected /\ ~st.do_continue)
        /\ st.pc = "returned" => ~st.do_continue

\* C5 (as stated): _search_tweets hands every yielded record to handle(),
\* starts another round only for a handler with repeat set, and invokes
\* on_finish() exactly once over the whole call
C5_Original ==
    mode = "search" =>
        /\ h.n_handle = q.n_yield - (IF q.pc = "handle" THEN 1 ELSE 0)
        /\ q.rounds > 1 => (h.kind = "TweetWriter" /\ h.repeat)
        /\ h.n_on_finish <= 1
        /\ q.pc = "done" => h.n_on_finish = 1

\* what holds of _search_tweets: it invokes on_finish() itself exactly once
\* when it returns; each rotation adds one invocation
C5_FinishOncePlusRotations ==
    mode = "search" =>
        /\ h.n_handle = q.n_yield - (IF q.pc = "handle" THEN 1 ELSE 0)
        /\ q.rounds > 1 => (h.kind = "TweetWriter" /\ h.repeat)
        /\ h.n_on_finish = h.n_restart + (IF q.pc = "done" THEN 1 ELSE 0)
\* ---------------------------------------------------- search_tweets() calls
\* the requests of the current call that ended with outcome o
RequestsWith(o) == {i \in 1..Len(q.requests) : q.requests[i].outcome = o}

\* the current search_tweets() call has ended (returned or raised)
CallOver == q.pc \in {"exhausted", "raised"}

\* what search_tweets(limit, max_id=cursor) yields against the endpoint when
\* no request fails and the handler counts each yielded record once: page
\* after page from the cursor down, until limit records or an empty page
RECURSIVE RefYield(_, _, _)
RefYield(limit, cursor, fetched) ==
    IF fetched >= limit THEN <<>>
    ELSE LET page == EndpointPage(Min2(PageMax, limit - fetched), cursor)
         IN  IF Len(page) = 0 THEN <<>>
             ELSE page \o RefYield(limit, Some(Last(page) - 1),
                                   fetched + Len(page))

\* exactly one request of the call raised a rate-limit error, none raised
\* another error
OneRateLimitOnly ==
    /\ Cardinality(RequestsWith("TwythonRateLimitError")) = 1
    /\ RequestsWith("TwythonError") = {}

\* the request after the i-th one asks for the same page
SameRequestAgain(i) ==
    /\ i < Len(q.requests)
    /\ q.requests[i + 1].count = q.requests[i].count
    /\ q.requests[i + 1].max_id = q.requests[i].max_id

\* C6 (as stated): a call in which exactly one request (the initial one or one
\* of the pagination loop) met a rate limit has slept once for 15 minutes,
\* has asked for the same page again, has used no retry, and ends having
\* yielded what it yields when no request fails
C6_Original ==
    (OneRateLimitOnly /\ CallOver) =>
        /\ q.err = "none"
        /\ q.slept = RateLimitSleep
        /\ q.retries = 0
        /\ \A i \in RequestsWith("TwythonRateLimitError") : SameRequestAgain(i)
        /\ mode = "direct" => q.yielded = RefYield(q.limit, q.arg_max_id, 0)

\* what holds: the same, for a rate limit met by a request of the pagination
\* loop
C6_PaginationOnly ==
    (OneRateLimitOnly /\ CallOver /\ q.err # "TwythonRateLimitError") =>
        /\ q.err = "none"
        /\ q.slept = RateLimitSleep
        /\ q.retries = 0
        /\ \A i \in RequestsWith("TwythonRateLimitError") : SameRequestAgain(i)
        /\ mode = "direct" => q.yielded = RefYield(q.limit, q.arg_max_id, 0)

\* a request of the pagination loop raises a TwythonError that is no rate limit
OtherErrorStep == q.pc = "page_loop" /\ q'.other_errs = q.other_errs + 1

\* C7 (as stated): such an error is raised to the caller exactly when
\* retries_after_twython_exception errors were retried before; otherwise the
\* engine goes back to request the same page
C7_Original ==
    [][ OtherErrorStep =>
          IF q.retries = q.retries_allowed
          THEN q'.pc = "raised" /\ q'.err = "TwythonError"
          ELSE /\ q'.pc = "page_loop" /\ q'.err = "none"
               /\ q'.retries = q.retries + 1
               /\ q'.max_id = q.max_id
               /\ q'.count_from_query = q.count_from_query
               /\ q'.yielded = q.yielded ]_vars

\* what holds: the TwythonError itself is raised exactly when the retries are
\* used up, and is counted otherwise
C7_RaisedWhenRetriesUsedUp ==
    [][ OtherErrorStep =>
          /\ (q'.err = "TwythonError") <=> (q.retries = q.retries_allowed)
          /\ q.retries # q.retries_allowed => q'.retries = q.retries + 1 ]_vars

\* the n newest ids of the endpoint, newest first
Newest(n) == [i \in 1..n |-> IdBase + api.nrec + 1 - i]

\* records returned by the requests of the call before the i-th one
RECURSIVE FetchedBefore(_)
FetchedBefore(i) ==
    IF i <= 1 THEN 0
    ELSE FetchedBefore(i - 1) +
         Len(EndpointPage(q.requests[i - 1].count, q.requests[i - 1].max_id))

\* C8 (as stated): against an endpoint that never fails and returns pages of
\* strictly decreasing ids, a call with no cursor ends having yielded the
\* min(limit, N) newest records in order, each once, and has asked for pages
\* of min(100, remaining) records
C8_Original ==
    (/\ q.rate_errs = 0 /\ q.other_errs = 0
     /\ api.descending /\ q.rounds > 0 /\ q.arg_max_id = None) =>
        /\ \A i \in 1..Len(q.requests) :
              q.requests[i].count = Min2(PageMax, q.limit - FetchedBefore(i))
        /\ q.pc = "exhausted" => q.yielded = Newest(Min2(q.limit, api.nrec))

\* what holds: the same for a handler whose counter only the generator
\* advances and that never asks to stop before limit records
C8_CountedOnce ==
    (/\ q.rate_errs = 0 /\ q.other_errs = 0
     /\ api.descending /\ q.rounds > 0 /\ q.arg_max_id = None
     /\ h.kind # "TweetViewer" /\ ~h.do_stop) =>
        /\ \A i \in 1..Len(q.requests) :
              q.requests[i].count = Min2(PageMax, q.limit - FetchedBefore(i))
        /\ q.pc = "exhausted" => q.yielded = Newest(Min2(q.limit, api.nrec))

\* the smallest id of a non-empty page
MinId(page) == CHOOSE m \in {page[i] : i \in 1..Len(page)} :
                  \A i \in 1..Len(page) : m <= page[i]

\* the last request of the call succeeded with a non-empty page, which is the
\* page in `results`
PageFresh ==
    /\ q.requests # <<>> /\ Last(q.requests).outcome = "ok"
    /\ q.results # None /\ Len(q.results[1]) > 0

\* C9 (as stated): after a successful non-empty page the cursor is the page's
\* minimum id - 1, and less than the cursor the page was requested with
C9_Original ==
    PageFresh =>
        /\ q.max_id = Some(MinId(q.results[1]) - 1)
        /\ Last(q.requests).max_id # None
              => q.max_id[1] < Last(q.requests).max_id[1]

\* C9 (amended): the cursor is the id of the page's last record - 1, which is
\* the minimum id - 1 when the page is in descending order; it is less than
\* the cursor the page was requested with
C9_LastIdMinusOne ==
    PageFresh =>
        /\ q.max_id = Some(Last(q.results[1]) - 1)
        /\ api.descending => q.max_id = Some(MinId(q.results[1]) - 1)
        /\ Last(q.requests).max_id # None
              => q.max_id[1] < Last(q.requests).max_id[1]

\* C9 witness: a page of the pagination loop with two records, oldest first
C9_Witness ==
    /\ PageFresh /\ ~api.descending
    /\ Len(q.results[1]) = 2 /\ Last(q.requests).max_id # None
    /\ q.max_id = Some(q.results[1][2] - 1)
    /\ q.results[1][1] < q.results[1][2]

\* C10 (as stated): handler.max_id is None before the first page is fetched
\* and is (oldest id of the page) - 1 after every successful non-empty page,
\* so a later round of _search_tweets is called with a cursor
C10_Original ==
    (mode = "search" /\ h.kind = "TweetWriter") =>
        /\ q.fetched = 0 => h.max_id = None
        /\ PageFresh => h.max_id = Some(MinId(q.results[1]) - 1)
        /\ (mode = "search" /\ h.kind = "TweetWriter" /\ q.pc = "gen_start"
              /\ q.fetched > 0) => q.arg_max_id # None

\* what holds: handler.max_id is stored by the pagination loop only
C10_PaginationStoresCursor ==
    (mode = "search" /\ h.kind = "TweetWriter") =>
        /\ q.fetched = 0 => h.max_id = None
        /\ (PageFresh /\ Last(q.requests).max_id # None)
              => h.max_id = Some(Last(q.results[1]) - 1)

\* ------------------------------------------------------- Streamer.filter('', '')
\* the current call is filter(track='', follow='') and has left the loop test
FilterNoArgsEnded == mode = "stream" /\ st.no_track_follow /\ st.pc # "loop"

\* C11 (as stated): filter(track='', follow='') raises ValueError before any
\* network request, also on a Streamer whose earlier session has stopped
C11_Original ==
    FilterNoArgsEnded =>
        /\ st.pc = "raised" /\ st.err = "ValueError"
        /\ st.conns = 0

\* what holds: no request is made, and ValueError is raised when the
\* continuation flag is still true; with the flag false the call returns
C11_RaisesWhileFlagTrue ==
    FilterNoArgsEnded =>
        /\ st.conns = 0
        /\ IF st.do_continue
           THEN st.pc = "raised" /\ st.err = "ValueError"
           ELSE st.pc = "returned" /\ st.err = "none"

\* ------------------------------------------------------------ handler.counter
\* records handed to the consumer since the counter was last reset: to
\* handle(), or to the caller of search_tweets() when no handler is registered
HandledSinceReset ==
    IF h.kind = "BasicTweetHandler" THEN q.n_yield
    ELSE h.n_handle - h.n_restart * h.limit

\* the consumer has the record, the generator has not resumed to count it
NotYetCounted == IF q.pc \in {"init_resume", "page_resume"} THEN 1 ELSE 0

\* the session is over: sample()/filter() or _search_tweets() has returned
SessionOver ==
    \/ mode = "stream" /\ st.pc = "returned"
    \/ mode = "search" /\ q.pc = "done"

\* C12 (as stated): after each record is fully processed counter is the
\* number of records handled since the last reset, for every handler; a
\* session of limit L that is offered at least L records handles exactly L
C12_Original ==
    h.kind # "None" =>
        /\ q.pc # "handle" => h.counter = HandledSinceReset - NotYetCounted
        /\ (SessionOver /\ ~h.repeat /\ h.date_limit = None
              /\ Offered >= h.limit) => h.n_handle = h.limit

\* what holds: the same for the handlers whose handle() does not count
C12_CountedByEngineOnly ==
    (h.kind # "None" /\ h.kind # "TweetViewer") =>
        /\ q.pc # "handle" => h.counter = HandledSinceReset - NotYetCounted
        /\ (SessionOver /\ ~h.repeat /\ h.date_limit = None
              /\ Offered >= h.limit) => h.n_handle = h.limit

\* ------------------------------------------------------- date_limit of tweets()
\* Twitter.tweets() was called with a date_limit
TweetsWithDateLimit ==
    mode \in {"stream", "search"} /\ h.kind # "None" /\ h.date_limit # None

\* the engine has stopped, or is about to without handling another record
Stopping ==
    IF mode = "stream" THEN ~st.do_continue
    ELSE q.pc \in {"init_resume", "page_resume", "exhausted", "done", "raised"}

\* C13 (as stated): with a date_limit, for either value of to_screen, once a
\* record beyond the limit has been handled no later record is passed to the
\* handler and the session ends
C13_Original ==
    (TweetsWithDateLimit /\ h.crossed) => (h.n_late = 0 /\ Stopping)

\* what holds: the same for a TweetWriter in repeat mode, the one
\* configuration whose do_continue() consults do_stop
C13_RepeatWriterStops ==
    (TweetsWithDateLimit /\ h.crossed /\ h.kind = "TweetWriter" /\ h.repeat)
        => (h.n_late = 0 /\ Stopping /\ h.do_stop)

\* ---------------------------------------------------------- output targets
\* this step performs a rotation (_restart_file)
Rotates == h'.n_restart # h.n_restart

\* this step calls handle() on a TweetWriter that opens its target
Opens == h.kind = "TweetWriter" /\ h.startingup /\ h'.n_handle # h.n_handle

\* no target loses lines in this step
NothingTruncated == \A n \in DOMAIN disk : disk'[n] >= disk[n]

\* C14 (as stated): a target is opened only when no other is open, every
\* rotation names a target that was never written before, and no records
\* already written are lost, also when the rotations happen within one second
C14_Original ==
    [][ h.kind = "TweetWriter" =>
          /\ Opens => h.output # "open"
          /\ Rotates => h'.fname \notin DOMAIN disk'
          /\ NothingTruncated ]_vars

\* what holds: a rotation that happens in a later clock second names a fresh
\* target, and in repeat mode a target is opened only after the previous one
\* was closed
C14_FreshNameInLaterSecond ==
    [][ h.kind = "TweetWriter" =>
          /\ (Opens /\ h.repeat) => h.output # "open"
          /\ (Rotates /\ h'.fname # h.fname) => h'.fname \notin DOMAIN disk'
          /\ (h.repeat /\ ~NothingTruncated)
                => (h.n_restart > 0 /\ h.fname \in DOMAIN disk) ]_vars

\* ------------------------------------------------ do_continue() after do_stop
\* this step calls do_continue() on a TweetWriter in repeat mode whose
\* do_stop is set at the time of the call (do_continue() never changes it)
StoppedDoContinue ==
    /\ h.kind = "TweetWriter" /\ h.repeat
    /\ h'.dc_tick # h.dc_tick
    /\ h'.do_stop

\* what the engine adds to counter before it calls do_continue(): 1 after a
\* record, nothing at the end of a search round
EngineCounts == IF mode = "search" /\ q.pc = "exhausted" THEN 0 ELSE 1

\* C15: in repeat mode do_continue() never rotates while do_stop is true, also
\* when counter = limit: it returns false and leaves counter, file name and
\* startingup as they were
C15_NoRotationOnceStopped ==
    [][ StoppedDoContinue =>
          /\ h'.dc_ret = Some(FALSE)
          /\ h'.n_restart = h.n_restart
          /\ h'.fname = h.fname
          /\ h'.startingup = h.startingup
          /\ h'.counter = h.counter + EngineCounts ]_vars

\* C15 witness: do_continue() has returned false with do_stop set and
\* counter = limit, and no rotation has happened
C15_Witness ==
    /\ h.kind = "TweetWriter" /\ h.repeat
    /\ h.do_stop /\ h.counter = h.limit
    /\ h.dc_ret = Some(FALSE) /\ h.n_restart = 0 /\ h.fname = 0

\* --------------------------------------------------- the date test of handle()
\* this step calls handle() on a TweetWriter that has a date boundary
HandlesWithBoundary ==
    /\ h.kind = "TweetWriter" /\ h.date_limit # None
    /\ h'.n_handle # h.n_handle

\* the record of this step is on the stopping side of the boundary: strictly
\* after it when streaming, strictly before it when searching
Triggers ==
    \/ h.stream /\ h'.seen = "after"
    \/ ~h.stream /\ h'.seen = "before"

\* C16: handle() sets do_stop exactly on a record strictly beyond the
\* boundary (after it in streaming mode, before it in search mode), and then
\* returns without clearing startingup; any other record clears startingup
C16_DateTestStrict ==
    [][ HandlesWithBoundary =>
          /\ h'.do_stop = (h.do_stop \/ Triggers)
          /\ Triggers => h'.startingup = h.startingup
          /\ (~Triggers /\ h'.n_restart = h.n_restart) => ~h'.startingup ]_vars

\* C16 witness: in search mode the first record is dated before the boundary;
\* do_stop is set and startingup is still set. (A record dated at the
\* boundary has been handled without do_stop in C16_WitnessAtBoundary.)
C16_Witness ==
    /\ h.kind = "TweetWriter" /\ ~h.stream /\ h.date_limit # None
    /\ h.n_handle = 1 /\ h.seen = "before"
    /\ h.do_stop /\ h.startingup

C16_WitnessAtBoundary ==
    /\ h.kind = "TweetWriter" /\ h.stream /\ h.date_limit # None
    /\ h.n_handle = 1 /\ h.seen = "at"
    /\ ~h.do_stop /\ ~h.startingup

\* ------------------------------------------------- leaving the streaming loop
\* C17: sample()/filter() returns only with the continuation flag false and
\* raises only a ValueError (no handler registered, or no track/follow); a
\* ChunkedEncodingError is swallowed, and while the flag is true the loop
\* requests the connection again
C17_LoopLeftOnlyWhenStopped ==
    [][ mode = "stream" =>
          /\ st'.pc = "returned" => ~st'.do_continue
          /\ st'.pc = "raised" =>
                /\ st'.err = "ValueError" /\ st'.do_continue
                /\ h.kind = "None" \/ st'.no_track_follow
          /\ st'.chunk_errs # st.chunk_errs =>
                (st'.pc = "loop" /\ st'.err = "none")
          /\ (st.pc = "loop" /\ st.do_continue /\ ~st.no_track_follow
                /\ st' # st) =>
                (st'.pc = "streaming" /\ st'.conns = st.conns + 1)
          /\ (st.pc = "streaming" /\ h.kind = "None"
                /\ st'.msgs # st.msgs) =>
                (st'.pc = "raised" /\ st'.err = "ValueError") ]_vars

\* C17 witness: two ChunkedEncodingErrors with the flag true, each followed
\* by a new connection request
C17_Witness ==
    /\ mode = "stream" /\ st.do_continue
    /\ st.chunk_errs = 2 /\ st.conns = 3 /\ st.pc = "streaming"

\* C17 second case reached: data arrived with no handler registered
C17_WitnessNoHandler ==
    /\ mode = "stream" /\ h.kind = "None" /\ st.msgs = 1
    /\ st.pc = "raised" /\ st.err = "ValueError"

\* ------------------------------------------------ messages without a text field
\* on_success is called in this step with the flag true and a handler
MessageWhileRunning ==
    /\ mode = "stream" /\ st'.msgs # st.msgs
    /\ st.do_continue /\ h.kind # "None"

\* C18: a message with no text field leaves the handler, its output and the
\* continuation flag unchanged and does not call handle(); a message with a
\* text field increments the counter, calls handle() once and sets the flag
\* to what do_continue() returns
C18_OnlyTextCounts ==
    [][ MessageWhileRunning =>
          IF st'.text_msgs = st.text_msgs
          THEN h' = h /\ disk' = disk /\ st'.do_continue = st.do_continue
          ELSE /\ h'.n_handle = h.n_handle + 1
               /\ h'.dc_tick # h.dc_tick
               /\ h'.n_restart = h.n_restart => h'.counter > h.counter
               /\ h'.dc_ret = Some(st'.do_continue) ]_vars

\* C18 witness: of two messages one had no text field; one record was
\* handled and counted and the session is still running
C18_Witness ==
    /\ mode = "stream" /\ h.kind = "TweetWriter" /\ ~h.repeat
    /\ st.msgs = 2 /\ st.text_msgs = 1
    /\ h.n_handle = 1 /\ h.counter = 1 /\ st.do_continue
    /\ disk[h.fname] = 1

\* ------------------------------------------------------ a retried page request
\* the failed request of this step is retried, not raised
RetriedErrorStep == OtherErrorStep /\ q.retries # q.retries_allowed

\* C19 (as stated): a failed page request that is retried yields nothing,
\* leaves the fetched count, the cursor and the handler's counter unchanged
\* and reads no undefined page; no page is processed a second time
C19_Original ==
    [][ /\ RetriedErrorStep =>
             /\ q'.yielded = q.yielded
             /\ q'.count_from_query = q.count_from_query
             /\ q'.max_id = q.max_id
             /\ h'.counter = h.counter
             /\ q'.err # "UnboundLocalError"
        /\ q'.stale = 0 ]_vars

\* what holds: a failed request whose error is raised to the caller
\* contributes nothing
C19_RaisedErrorContributesNothing ==
    [][ (OtherErrorStep /\ q.retries = q.retries_allowed) =>
             /\ q'.yielded = q.yielded
             /\ q'.count_from_query = q.count_from_query
             /\ q'.max_id = q.max_id
             /\ h' = h
             /\ q'.err = "TwythonError" ]_vars

\* ------------------------------------------------- the endpoint has no more data
\* no request of the session has failed
NoFailure == q.rate_errs = 0 /\ q.other_errs = 0

\* a search_tweets() call of _search_tweets has ended without a record: the
\* endpoint answered the request at the current cursor with zero results
EndpointDry ==
    /\ mode = "search" /\ q.pc = "exhausted"
    /\ q.yielded = <<>> /\ NoFailure

\* _search_tweets is over: it has returned (after on_finish) or raised
SearchOver == q.pc \in {"done", "raised"}

\* C20 (as stated): once the endpoint answers with zero results and no
\* request fails, _search_tweets eventually stops requesting pages and ends,
\* with repeat off and with a TweetWriter in repeat mode
C20_Original == EndpointDry ~> (SearchOver \/ ~NoFailure)

\* what holds: with repeat off (and in repeat mode once do_stop is set) the
\* session calls on_finish() and returns
C20_StopsWithoutRepeat ==
    (EndpointDry /\ h.kind = "TweetWriter" /\ (~h.repeat \/ h.do_stop))
        ~> (q.pc = "done" /\ h.n_on_finish > 0)

\* what holds: in repeat mode with do_stop not set the round that found the
\* endpoint dry is followed by another round, with the handler unchanged
C20_DryRoundStartsAnother ==
    [][ (EndpointDry /\ h.kind = "TweetWriter" /\ h.repeat /\ ~h.do_stop
           /\ q'.pc # q.pc)
          => (q'.pc = "top" /\ h'.n_on_finish = h.n_on_finish
                /\ h'.counter = h.counter /\ h'.max_id = h.max_id) ]_vars

====
